---- MODULE Spec2Model ----
(***************************************************************************)
(* Model of th_pub_docker_scanner.py: the namespace sweep scan_images, the *)
(* registry client (get_all_repositories, get_all_tags, get_image_digest), *)
(* the store (images.db, update_db), the scan executor run_trufflehog and  *)
(* the notifier send_message_to_slack.                                     *)
(*                                                                         *)
(* The sweep is one sequential process; pc is its position.  The registry  *)
(* is the environment: a tag can be moved to another digest at any time.   *)
(* Every external call (HTTP request, subprocess, sqlite, Slack) draws its *)
(* outcome from the outcomes the call has in Python: a status the code     *)
(* tests, or an exception the code catches or does not catch.              *)
(***************************************************************************)
EXTENDS Integers, Sequences, FiniteSets, TLC

\* ---------------------------------------------------------------- bounds
MaxSweeps == 2        \* runs of scan_images in one behaviour
MaxRegChanges == 1    \* tag moves by the registry in one behaviour
MaxFaults == 1        \* failing external calls in one behaviour

\* ------------------------------------------------- the registry's content
Namespace == "ns"
RepoPages == << <<"app">>, <<"lib">> >>
TagPages(repo) ==
    IF repo = "app" THEN << <<"v1">>, <<"v2">> >> ELSE << <<"v1">> >>
AllPairs == { <<"app", "v1">>, <<"app", "v2">>, <<"lib", "v1">> }
Digests == {"sha_a", "sha_b"}
InitialRegistry ==
    [p \in AllPairs |-> IF p = <<"app", "v1">> THEN "sha_a" ELSE "sha_b"]
\* verified findings the scanner reports on the content of a digest
Findings(d) == IF d = "sha_a" THEN 0 ELSE 1

None == "None"          \* Python's None
\* no row for the key (a value of the shape of a row, so that rows compare)
Absent == [digest |-> "absent", ts |-> 0, count |-> 0]
Unseen == "unseen"      \* pair not reached by get_image_digest in a sweep
Unbound == "unbound"    \* local name not assigned yet

\* ------------------------------------------------------- pure functions
\* while url: ... loop of get_all_repositories / get_all_tags: pages are
\* requested in order; page failAt answers with a status other than 200
\* (failAt = Len(pages) + 1: no page fails); the last page has no next link.
RECURSIVE FetchPages(_, _, _, _)
FetchPages(pages, i, acc, failAt) ==
    IF i > Len(pages) THEN acc
    ELSE IF i = failAt THEN acc
    ELSE FetchPages(pages, i + 1, acc \o pages[i], failAt)

get_all_repositories(failAt) == FetchPages(RepoPages, 1, << >>, failAt)

get_all_tags(repository, failAt) ==
    FetchPages(TagPages(repository), 1, << >>, failAt)

\* get_image_digest: token request, then HEAD request for the manifest.
TokenReplies == {"ok", "status", "no_token"}
ManifestReplies == {"ok", "status", "no_header"}
get_image_digest(tokenReply, manifestReply, current) ==
    IF tokenReply = "status" THEN None
    ELSE IF tokenReply = "no_token" THEN None
    ELSE IF manifestReply = "status" THEN None
    ELSE IF manifestReply = "no_header" THEN None
    ELSE current

\* SELECT digest ... fetchone(): stored_digest is None when there is no row
StoredDigest(row) == IF row = Absent THEN None ELSE row.digest

\* variant: an image with findings is scanned again
DecideMutCount(row, d) ==
    d /= StoredDigest(row) \/ (row /= Absent /\ row.count > 0)

\* variant: the digest is compared with the fetched row, not with
\* result[0]: a str never equals a tuple
DecideMutRow(row, d) == TRUE

\* if digest != stored_digest: the pair is appended to images_to_scan
Decide(row, d) == d /= StoredDigest(row)

\* image_tag = f"{namespace}/{repo}:{tag}"
ImageTag(ns, repo, tag) == <<ns, "/", repo, ":", tag>>

Replace(s, a, b) == [i \in DOMAIN s |-> IF s[i] = a THEN b ELSE s[i]]

\* f"temp_container_{image_tag.replace('/', '_').replace(':', '_')}"
ContainerName(image_tag) ==
    <<"temp_container_">> \o Replace(Replace(image_tag, "/", "_"), ":", "_")

\* newline-delimited output of trufflehog --json on a content with n findings
JsonLines(n) == [i \in 1..n |-> "rec"]

IsBlank(line) == line \in {"", " "}

\* for line in scan_results_json.strip().split('\n'): if line.strip(): += 1
RECURSIVE CountLines(_)
CountLines(lines) ==
    IF lines = << >> THEN 0
    ELSE (IF IsBlank(Head(lines)) THEN 0 ELSE 1) + CountLines(Tail(lines))

\* variant: the digest column is left out of the INSERT
UpsertMutNoDigest(st, key, d, ts, c) ==
    [st EXCEPT ![key] = [digest |-> None, ts |-> ts, count |-> c]]

\* variant: the primary key is image_name alone
UpsertMutRepoKey(st, key, d, ts, c) ==
    [p \in DOMAIN st |->
        IF p[1] = key[1] THEN [digest |-> d, ts |-> ts, count |-> c] ELSE st[p]]

\* variant: the primary key is tag alone
UpsertMutTagKey(st, key, d, ts, c) ==
    [p \in DOMAIN st |->
        IF p[2] = key[2] THEN [digest |-> d, ts |-> ts, count |-> c] ELSE st[p]]

\* variant: a scan that gave no finding is not recorded
UpsertMutSkipZero(st, key, d, ts, c) ==
    IF c = 0 THEN st ELSE [st EXCEPT ![key] = [digest |-> d, ts |-> ts, count |-> c]]

\* INSERT OR REPLACE INTO images ... keyed by (image_name, tag)
Upsert(st, key, d, ts, c) ==
    [st EXCEPT ![key] = [digest |-> d, ts |-> ts, count |-> c]]

\* ------------------------------------------------------------- the state
VARIABLES
    reg,            \* registry: (repo, tag) -> digest the tag points at now
    regChanges,     \* tag moves so far
    faults,         \* failing external calls so far
    store,          \* images.db: (image_name, tag) -> row or Absent
    clock,          \* datetime.now(ist), as a logical clock
    tempDirs,       \* scratch directories that exist on the host
    containers,     \* names of the containers that exist in the daemon
    pc,             \* position of the sweep
    sweepNo,        \* runs of scan_images started so far
    repos, ri,      \* scan_images: repos and the index of the for loop
    tags, ti,       \* scan_images: tags of repos[ri] and the loop index
    digest,         \* scan_images: digest of the current pair
    images_to_scan, \* scan_images: the plan
    si,             \* scan_images: index of the task being scanned
    temp_dir, container_name, scan_results, vulnerabilities_count,
                    \* run_trufflehog: its locals
    pulled,         \* digest of the image docker pull left in the cache
    extracted,      \* content tar left in temp_dir
    exc,            \* exception in flight in run_trufflehog
    \* ---- observations kept for the properties
    log,            \* events of the current sweep, in order
    view,           \* this sweep: pair -> digest resolved, None or Unseen
    prevView,       \* view of the previous sweep
    prevDone,       \* the previous sweep ended at "done"
    store0,         \* store when the current sweep started
    considered,     \* pairs that went through the change decision, ever
    scanned,        \* pair -> content the count of its row was taken from
    stepFailed,     \* step of the current run_trufflehog that failed
    cleanupFailed,  \* cleanup step of the current run_trufflehog that failed
    abortCause,     \* call whose exception left scan_images
    lastResolve,    \* outcome of the last get_image_digest
    lastSend,       \* outcome of the last send_message_to_slack
    \* ---- one call of get_all_repositories / get_all_tags, request by request
    pgWho,          \* the function called
    pgPages,        \* pages the registry holds, chained by their next links
    pgFailAt,       \* page whose request fails (Len(pgPages) + 1: none)
    pgFailKind,     \* how it fails: a status other than 200, or requests raises
    pgUrl,          \* url: the page to request next, 0 for None
    pgItems,        \* repos / tags
    pgRequests,     \* requests.get calls made
    pgPc,           \* "loop", "returned" or "raised"
    \* ---- the images table, row by row, under calls of update_db
    dbRows,         \* rows of the table, in the order of insertion
    dbClock,        \* datetime.now(ist)
    dbCalls,        \* calls of update_db made
    dbLast,         \* arguments and time of the last call
    dbBefore,       \* rows before the last call
    dbRepeat,       \* calls in a row with the arguments of the last call
    \* ---- invocations of run_trufflehog that overlap in time, on one host
    ccInv,          \* per invocation: image_tag, position, temp_dir, container_name, ...
    ccDirs,         \* scratch directories on the host
    ccContainers,   \* containers of the daemon: name and the invocation that created it
    ccClash,        \* <<p, q, how>>: invocation p acted on or was stopped by q's container
    \* ---- the two scanner outputs of one run_trufflehog, letter by letter
    cnText,         \* result.stdout of the first run
    cnJson,         \* result_json.stdout of the second run
    cnReport,       \* scan_results
    cnCount,        \* vulnerabilities_count
    cnPc            \* "run" or "returned"

vars == << reg, regChanges, faults, store, clock, tempDirs, containers, pc,
           sweepNo, repos, ri, tags, ti, digest, images_to_scan, si,
           temp_dir, container_name, scan_results, vulnerabilities_count,
           pulled, extracted, exc, log, view, prevView, prevDone, store0,
           considered, scanned, stepFailed, cleanupFailed, abortCause,
           lastResolve, lastSend,
           pgWho, pgPages, pgFailAt, pgFailKind, pgUrl, pgItems, pgRequests, pgPc,
           dbRows, dbClock, dbCalls, dbLast, dbBefore, dbRepeat,
           ccInv, ccDirs, ccContainers, ccClash,
           cnText, cnJson, cnReport, cnCount, cnPc >>

pgVars == << pgWho, pgPages, pgFailAt, pgFailKind, pgUrl, pgItems, pgRequests, pgPc >>
\* the variables of the studies of single functions, which the sweep leaves alone
dbVars == << dbRows, dbClock, dbCalls, dbLast, dbBefore, dbRepeat >>
ccVars == << ccInv, ccDirs, ccContainers, ccClash >>
cnVars == << cnText, cnJson, cnReport, cnCount, cnPc >>
auxVars == << pgVars, dbVars, ccVars, cnVars >>
\* the variables of the sweep
sweepVars == << reg, regChanges, faults, store, clock, tempDirs, containers, pc,
                sweepNo, repos, ri, tags, ti, digest, images_to_scan, si,
                temp_dir, container_name, scan_results, vulnerabilities_count,
                pulled, extracted, exc, log, view, prevView, prevDone, store0,
                considered, scanned, stepFailed, cleanupFailed, abortCause,
                lastResolve, lastSend >>

envVars == << reg, regChanges >>
hostVars == << tempDirs, containers >>
loopVars == << repos, ri, tags, ti, digest >>
rtVars == << temp_dir, container_name, scan_results, vulnerabilities_count,
             pulled, extracted, exc, stepFailed, cleanupFailed >>
histVars == << view, prevView, prevDone, store0, considered, scanned >>

Empty == "empty"        \* a directory with nothing of the image in it
NoScan == "no_scan"     \* the scanner did not run to the end
UnboundReport == <<Unbound, "">>
ErrorReport == <<"error", "">>           \* f"Error during scanning ..."
Stdout(content) == <<"stdout", content>> \* result.stdout of the first run

Event(kind, pair, d, c) == [kind |-> kind, pair |-> pair, digest |-> d, count |-> c]

CurPair == <<repos[ri], tags[ti]>>
Task == images_to_scan[si]
TaskPair == <<Task[1], Task[2]>>

\* a failing external call: counted against MaxFaults
Fault == faults < MaxFaults /\ faults' = faults + 1
NoFault == faults' = faults

PgIdle ==
    /\ pgWho = None /\ pgPages = << >> /\ pgFailAt = 0 /\ pgFailKind = None
    /\ pgUrl = 0 /\ pgItems = << >> /\ pgRequests = 0 /\ pgPc = "idle"

NoCall == [key |-> << >>, digest |-> None, count |-> 0, ts |-> 0]
DbIdle ==
    /\ dbRows = << >> /\ dbClock = 1 /\ dbCalls = 0 /\ dbLast = NoCall
    /\ dbBefore = << >> /\ dbRepeat = 0

MaxProcs == 2         \* invocations of run_trufflehog in flight on one host
Procs == 1..MaxProcs
NoInv == [image_tag |-> << >>, pc |-> "off", temp_dir |-> 0,
          container_name |-> << >>, extracted |-> None]
CcIdle ==
    /\ ccInv = [p \in Procs |-> NoInv]
    /\ ccDirs = {} /\ ccContainers = {} /\ ccClash = {}

CnIdle ==
    /\ cnText = << >> /\ cnJson = << >> /\ cnReport = << >>
    /\ cnCount = 0 /\ cnPc = "idle"

SweepInit ==
    /\ reg = InitialRegistry
    /\ regChanges = 0
    /\ faults = 0
    /\ store = [p \in AllPairs |-> Absent]
    /\ clock = 1
    /\ tempDirs = {}
    /\ containers = {}
    /\ pc = "idle"
    /\ sweepNo = 0
    /\ repos = << >> /\ ri = 1
    /\ tags = << >> /\ ti = 1
    /\ digest = None
    /\ images_to_scan = << >>
    /\ si = 1
    /\ temp_dir = 0
    /\ container_name = << >>
    /\ scan_results = UnboundReport
    /\ vulnerabilities_count = 0
    /\ pulled = None
    /\ extracted = Empty
    /\ exc = None
    /\ log = << >>
    /\ view = [p \in AllPairs |-> Unseen]
    /\ prevView = [p \in AllPairs |-> Unseen]
    /\ prevDone = FALSE
    /\ store0 = [p \in AllPairs |-> Absent]
    /\ considered = {}
    /\ scanned = [p \in AllPairs |-> NoScan]
    /\ stepFailed = None
    /\ cleanupFailed = None
    /\ abortCause = None
    /\ lastResolve = None
    /\ lastSend = None

Init == SweepInit /\ PgIdle /\ DbIdle /\ CcIdle /\ CnIdle

\* --------------------------------------------------------- the registry
\* The owner of a repository pushes: a tag now points at another digest.
\* The program observes the registry's digests in two places only, the
\* manifest request of get_image_digest and docker pull, so a move is taken
\* right before the observation that can see it: a move at any other time
\* shows the program the same digests as the same move made there.
Observed ==
    IF pc = "tag" /\ ti <= Len(tags) THEN {CurPair}
    ELSE IF pc = "rt_pull" THEN {TaskPair}
    ELSE {}

RegistryMove ==
    /\ regChanges < MaxRegChanges
    /\ \E p \in Observed, d \in Digests :
          /\ d /= reg[p]
          /\ reg' = [reg EXCEPT ![p] = d]
    /\ regChanges' = regChanges + 1
    /\ UNCHANGED << auxVars, faults, store, clock, hostVars, pc, sweepNo, loopVars,
                    images_to_scan, si, rtVars, log, histVars, abortCause,
                    lastResolve, lastSend >>

\* ------------------------------------------------------------ scan_images
\* scan_images is called: initialize_db(), get_all_repositories(namespace),
\* images_to_scan = []
StartSweep ==
    /\ pc \in {"idle", "done", "aborted"}
    /\ sweepNo < MaxSweeps
    /\ sweepNo' = sweepNo + 1
    /\ images_to_scan' = << >>
    /\ log' = << >>
    /\ prevView' = view
    /\ prevDone' = (pc = "done")
    /\ view' = [p \in AllPairs |-> Unseen]
    /\ store0' = store
    /\ ri' = 1
    /\ \/ /\ NoFault
          /\ repos' = get_all_repositories(Len(RepoPages) + 1)
          /\ pc' = "repo"
          /\ abortCause' = None
       \/ \E failAt \in 1..Len(RepoPages) :
             /\ Fault
             /\ repos' = get_all_repositories(failAt)
             /\ pc' = "repo"
             /\ abortCause' = None
       \/ \* requests.get raises: no handler up to the caller of scan_images
          /\ Fault
          /\ repos' = << >>
          /\ pc' = "aborted"
          /\ abortCause' = "get_all_repositories"
    /\ UNCHANGED << auxVars, envVars, store, clock, hostVars, tags, ti, digest, si,
                    rtVars, considered, scanned, lastResolve, lastSend >>

\* for repo in repos: tags = get_all_tags(namespace, repo)
NextRepo ==
    /\ pc = "repo"
    /\ ri <= Len(repos)
    /\ ti' = 1
    /\ \/ /\ NoFault
          /\ tags' = get_all_tags(repos[ri], Len(TagPages(repos[ri])) + 1)
          /\ pc' = "tag"
          /\ UNCHANGED abortCause
       \/ \E failAt \in 1..Len(TagPages(repos[ri])) :
             /\ Fault
             /\ tags' = get_all_tags(repos[ri], failAt)
             /\ pc' = "tag"
             /\ UNCHANGED abortCause
       \/ \* requests.get raises
          /\ Fault
          /\ tags' = tags
          /\ pc' = "aborted"
          /\ abortCause' = "get_all_tags"
    /\ UNCHANGED << auxVars, envVars, store, clock, hostVars, sweepNo, repos, ri,
                    digest, images_to_scan, si, rtVars, log, histVars,
                    lastResolve, lastSend >>

\* the for loop over repos is exhausted
ReposDone ==
    /\ pc = "repo"
    /\ ri > Len(repos)
    /\ pc' = "plan"
    /\ UNCHANGED << auxVars, envVars, faults, store, clock, hostVars, sweepNo, loopVars,
                    images_to_scan, si, rtVars, log, histVars, abortCause,
                    lastResolve, lastSend >>

\* the for loop over tags is exhausted: next repo
TagsDone ==
    /\ pc = "tag"
    /\ ti > Len(tags)
    /\ ri' = ri + 1
    /\ pc' = "repo"
    /\ UNCHANGED << auxVars, envVars, faults, store, clock, hostVars, sweepNo, repos,
                    tags, ti, digest, images_to_scan, si, rtVars, log,
                    histVars, abortCause, lastResolve, lastSend >>

ResolveOutcome(tokenReply, manifestReply) ==
    IF tokenReply = "status" THEN "token_status"
    ELSE IF tokenReply = "no_token" THEN "no_token"
    ELSE IF manifestReply = "status" THEN "manifest_status"
    ELSE IF manifestReply = "no_header" THEN "no_header"
    ELSE "ok"

\* digest = get_image_digest(namespace, repo, tag); if digest is None: continue
Resolve ==
    /\ pc = "tag"
    /\ ti <= Len(tags)
    /\ \/ \E tokenReply \in TokenReplies, manifestReply \in ManifestReplies :
             LET d == get_image_digest(tokenReply, manifestReply, reg[CurPair]) IN
             /\ tokenReply /= "ok" => manifestReply = "ok"
             /\ IF tokenReply = "ok" /\ manifestReply = "ok" THEN NoFault ELSE Fault
             /\ lastResolve' = ResolveOutcome(tokenReply, manifestReply)
             /\ digest' = d
             /\ view' = [view EXCEPT ![CurPair] = d]
             /\ IF d = None
                   THEN ti' = ti + 1 /\ pc' = "tag"
                   ELSE ti' = ti /\ pc' = "decide"
             /\ UNCHANGED abortCause
       \/ \* requests.get / requests.head raises (connection error, timeout):
          \* get_image_digest has no handler and neither has scan_images
          \E which \in {"token_exc", "manifest_exc"} :
             /\ Fault
             /\ lastResolve' = which
             /\ pc' = "aborted"
             /\ abortCause' = "get_image_digest"
             /\ UNCHANGED << digest, view, ti >>
    /\ UNCHANGED << auxVars, envVars, store, clock, hostVars, sweepNo, repos, ri, tags,
                    images_to_scan, si, rtVars, log, prevView, prevDone,
                    store0, considered, scanned, lastSend >>

\* SELECT digest FROM images ...; if digest != stored_digest: append
DecideStep ==
    /\ pc = "decide"
    /\ LET scan == Decide(store[CurPair], digest) IN
       /\ images_to_scan' =
             IF scan THEN Append(images_to_scan, <<repos[ri], tags[ti], digest>>)
             ELSE images_to_scan
       /\ log' = Append(log, Event("detect", CurPair, digest, IF scan THEN 1 ELSE 0))
    /\ considered' = considered \cup {CurPair}
    /\ ti' = ti + 1
    /\ pc' = "tag"
    /\ UNCHANGED << auxVars, envVars, faults, store, clock, hostVars, sweepNo, repos, ri,
                    tags, digest, si, rtVars, view, prevView, prevDone, store0,
                    scanned, abortCause, lastResolve, lastSend >>

\* send_message_to_slack: chat_postMessage succeeds, or raises SlackApiError,
\* which is caught and printed, or raises another error (no connection),
\* which is not caught
SendOutcomes == {"ok", "api_error", "other_error"}

\* variant: send_message_to_slack has no except clause
SendRaisesMutNoCatch(outcome) == outcome /= "ok"

\* except SlackApiError: print; any other exception leaves the function
SendRaises(outcome) == outcome = "other_error"

Send(outcome) ==
    /\ IF outcome = "ok" THEN NoFault ELSE Fault
    /\ lastSend' = outcome
    /\ abortCause' = IF SendRaises(outcome) THEN "send_message_to_slack"
                     ELSE abortCause

\* len(images_to_scan) in the summary message
SummaryCountMutRepos(plan) == Cardinality({plan[i][1] : i \in DOMAIN plan})

SummaryCount(plan) == Len(plan)

\* if images_to_scan: send the summary message, then start the for loop
PlanReady ==
    /\ pc = "plan"
    /\ images_to_scan /= << >>
    /\ \E outcome \in SendOutcomes :
          /\ Send(outcome)
          /\ pc' = IF SendRaises(outcome) THEN "aborted" ELSE "scan"
    /\ log' = Append(log, Event("summary", << >>, None, SummaryCount(images_to_scan)))
    /\ si' = 1
    /\ UNCHANGED << auxVars, envVars, store, clock, hostVars, sweepNo, loopVars,
                    images_to_scan, rtVars, histVars, lastResolve >>

\* variant: the summary message is sent for an empty plan too
PlanEmptyMutSummary ==
    /\ pc = "plan"
    /\ images_to_scan = << >>
    /\ \E outcome \in SendOutcomes :
          /\ Send(outcome)
          /\ pc' = IF SendRaises(outcome) THEN "aborted" ELSE "done"
    /\ log' = Append(log, Event("summary", << >>, None, SummaryCount(images_to_scan)))
    /\ UNCHANGED << auxVars, envVars, store, clock, hostVars, sweepNo, loopVars,
                    images_to_scan, si, rtVars, histVars, lastResolve >>

\* else: print("No new or updated images to scan.")
PlanEmpty ==
    /\ pc = "plan"
    /\ images_to_scan = << >>
    /\ pc' = "done"
    /\ UNCHANGED << auxVars, envVars, faults, store, clock, hostVars, sweepNo, loopVars,
                    images_to_scan, si, rtVars, log, histVars, abortCause,
                    lastResolve, lastSend >>

\* --------------------------------------------------------- run_trufflehog
\* tempfile.mkdtemp(): a directory that did not exist
FreshDir(dirs) == CHOOSE i \in 1..(Cardinality(dirs) + 1) : i \notin dirs

\* outcomes of a subprocess call: exit status 0, another exit status, or the
\* program could not be started (OSError)
RunOutcomes == {"ok", "nonzero", "oserror"}

\* what an outcome of a subprocess.run(..., check=True) does to the try block:
\* CalledProcessError is handled by the except clause, OSError is not
AfterChecked(step, outcome, okPc) ==
    /\ IF outcome = "ok" THEN NoFault ELSE Fault
    /\ stepFailed' = IF outcome = "ok" THEN stepFailed ELSE step
    /\ scan_results' = IF outcome = "nonzero" THEN ErrorReport ELSE scan_results
    /\ exc' = IF outcome = "oserror" THEN "OSError" ELSE exc
    /\ pc' = IF outcome = "ok" THEN okPc ELSE "rt_cleanup"

\* for repo, tag, digest in images_to_scan: run_trufflehog(image_tag) begins:
\* temp_dir, container_name, vulnerabilities_count = 0
RtBegin ==
    /\ pc = "scan"
    /\ temp_dir' = FreshDir(tempDirs)
    /\ tempDirs' = tempDirs \cup {temp_dir'}
    /\ container_name' = ContainerName(ImageTag(Namespace, Task[1], Task[2]))
    /\ vulnerabilities_count' = 0
    /\ scan_results' = UnboundReport
    /\ pulled' = None
    /\ extracted' = Empty
    /\ exc' = None
    /\ stepFailed' = None
    /\ cleanupFailed' = None
    /\ log' = Append(log, Event("scan_start", TaskPair, Task[3], 0))
    /\ pc' = "rt_pull"
    /\ UNCHANGED << auxVars, envVars, faults, store, clock, containers, sweepNo, loopVars,
                    images_to_scan, si, histVars, abortCause, lastResolve,
                    lastSend >>

\* docker pull --platform linux/amd64 image_tag, check=True: the image the
\* tag points at now
RtPull ==
    /\ pc = "rt_pull"
    /\ \E outcome \in RunOutcomes :
          /\ AfterChecked("pull", outcome, "rt_create")
          /\ pulled' = IF outcome = "ok" THEN reg[TaskPair] ELSE pulled
    /\ UNCHANGED << auxVars, envVars, store, clock, hostVars, sweepNo, loopVars,
                    images_to_scan, si, temp_dir, container_name,
                    vulnerabilities_count, extracted, cleanupFailed, log,
                    histVars, abortCause, lastResolve, lastSend >>

\* docker create --name container_name image_tag, check=True; the daemon
\* refuses a name that is in use
RtCreate ==
    /\ pc = "rt_create"
    /\ \/ /\ container_name \in containers
          /\ stepFailed' = "create"
          /\ scan_results' = ErrorReport
          /\ pc' = "rt_cleanup"
          /\ UNCHANGED << faults, exc, containers >>
       \/ /\ container_name \notin containers
          /\ \E outcome \in RunOutcomes :
                /\ AfterChecked("create", outcome, "rt_export")
                /\ containers' = IF outcome = "ok"
                                    THEN containers \cup {container_name}
                                    ELSE containers
    /\ UNCHANGED << auxVars, envVars, store, clock, tempDirs, sweepNo, loopVars,
                    images_to_scan, si, temp_dir, container_name,
                    vulnerabilities_count, pulled, extracted, cleanupFailed,
                    log, histVars, abortCause, lastResolve, lastSend >>

\* docker export container_name | tar -x -C temp_dir: two Popen, no exit
\* status is looked at; a failing export leaves nothing or everything
RtExport ==
    /\ pc = "rt_export"
    /\ \/ /\ NoFault
          /\ extracted' = pulled
          /\ pc' = "rt_scan"
          /\ UNCHANGED << stepFailed, exc >>
       \/ /\ Fault
          /\ stepFailed' = "export"
          /\ extracted' \in {Empty, pulled}
          /\ pc' = "rt_scan"
          /\ UNCHANGED exc
       \/ /\ Fault
          /\ stepFailed' = "export"
          /\ exc' = "OSError"
          /\ pc' = "rt_cleanup"
          /\ UNCHANGED extracted
    /\ UNCHANGED << auxVars, envVars, store, clock, hostVars, sweepNo, loopVars,
                    images_to_scan, si, temp_dir, container_name, scan_results,
                    vulnerabilities_count, pulled, cleanupFailed, log,
                    histVars, abortCause, lastResolve, lastSend >>

\* findings in what is in the scratch directory
FindingsIn(content) == IF content = Empty THEN 0 ELSE Findings(content)

\* the two trufflehog runs (no check=True): result.stdout of the first is the
\* report, the lines of the second are counted; a run that exits with an
\* error status has printed nothing on stdout
ScanOutcomes == {"ok", "nonzero"}
RtScan ==
    /\ pc = "rt_scan"
    /\ \/ \E text \in ScanOutcomes, json \in ScanOutcomes :
             /\ IF text = "ok" /\ json = "ok" THEN NoFault ELSE Fault
             /\ stepFailed' = IF text = "ok" /\ json = "ok" THEN stepFailed ELSE "scanner"
             /\ scan_results' = IF text = "ok" THEN Stdout(extracted) ELSE Stdout("")
             /\ vulnerabilities_count' =
                   IF json = "ok" THEN CountLines(JsonLines(FindingsIn(extracted)))
                   ELSE CountLines(<< "" >>)
             /\ UNCHANGED exc
       \/ \* trufflehog cannot be started: OSError leaves the try block
          /\ Fault
          /\ stepFailed' = "scanner"
          /\ exc' = "OSError"
          /\ UNCHANGED << scan_results, vulnerabilities_count >>
    /\ pc' = "rt_cleanup"
    /\ UNCHANGED << auxVars, envVars, store, clock, hostVars, sweepNo, loopVars,
                    images_to_scan, si, temp_dir, container_name, pulled,
                    extracted, cleanupFailed, log, histVars, abortCause,
                    lastResolve, lastSend >>

\* docker rm container_name (no check, output discarded)
DockerRm(cs, name, outcome) == IF outcome = "ok" THEN cs \ {name} ELSE cs

\* variant: the scratch directory is left behind
RmtreeMutSkip(dirs, d, outcome) == dirs

\* shutil.rmtree(temp_dir)
Rmtree(dirs, d, outcome) == IF outcome = "ok" THEN dirs \ {d} ELSE dirs

\* finally: docker rm, shutil.rmtree; then return scan_results,
\* vulnerabilities_count, or the exception in flight goes on
CleanupOutcomes == {"ok", "fail"}
RtCleanup ==
    /\ pc = "rt_cleanup"
    /\ \E rm \in CleanupOutcomes, rmtree \in CleanupOutcomes :
          /\ rm = "fail" => container_name \in containers
          /\ IF rm = "ok" /\ rmtree = "ok" THEN NoFault ELSE Fault
          /\ cleanupFailed' = IF rmtree = "fail" THEN "rmtree"
                              ELSE IF rm = "fail" THEN "rm" ELSE None
          /\ containers' = DockerRm(containers, container_name, rm)
          /\ tempDirs' = Rmtree(tempDirs, temp_dir, rmtree)
          /\ exc' = IF rmtree = "fail" THEN "rmtree" ELSE exc
          /\ IF exc' /= None
                THEN /\ pc' = "aborted"
                     /\ abortCause' = "run_trufflehog"
                     /\ log' = log
                ELSE /\ pc' = "update"
                     /\ abortCause' = abortCause
                     /\ log' = Append(log, Event("scan_end", TaskPair, Task[3],
                                                 vulnerabilities_count))
    /\ UNCHANGED << auxVars, envVars, store, clock, sweepNo, loopVars, images_to_scan,
                    si, temp_dir, container_name, scan_results,
                    vulnerabilities_count, pulled, extracted, stepFailed,
                    histVars, lastResolve, lastSend >>

\* content the returned count was taken from: the scanner's structured run
\* went over the whole image, or not
ScannedContent ==
    IF scan_results[1] = "stdout" /\ stepFailed = None THEN extracted ELSE NoScan

\* update_db(repo, tag, digest, vulnerabilities_count)
UpdateDb ==
    /\ pc = "update"
    /\ \/ /\ NoFault
          /\ store' = Upsert(store, TaskPair, Task[3], clock, vulnerabilities_count)
          /\ scanned' = [scanned EXCEPT ![TaskPair] = ScannedContent]
          /\ clock' = clock + 1
          /\ log' = Append(log, Event("upsert", TaskPair, store'[TaskPair].digest,
                                      store'[TaskPair].count))
          /\ pc' = "notify"
          /\ UNCHANGED abortCause
       \/ \* sqlite3 raises (database locked, disk full): no handler
          /\ Fault
          /\ pc' = "aborted"
          /\ abortCause' = "update_db"
          /\ UNCHANGED << store, scanned, clock, log >>
    /\ UNCHANGED << auxVars, envVars, hostVars, sweepNo, loopVars, images_to_scan, si,
                    rtVars, view, prevView, prevDone, store0, considered,
                    lastResolve, lastSend >>

\* the per-image message, then the next task or the end of scan_images
Notify ==
    /\ pc = "notify"
    /\ \E outcome \in SendOutcomes :
          /\ Send(outcome)
          /\ IF SendRaises(outcome) THEN si' = si /\ pc' = "aborted"
             ELSE IF si < Len(images_to_scan) THEN si' = si + 1 /\ pc' = "scan"
             ELSE si' = si /\ pc' = "done"
    /\ log' = Append(log, Event("notify", TaskPair, Task[3], vulnerabilities_count))
    /\ UNCHANGED << auxVars, envVars, store, clock, hostVars, sweepNo, loopVars,
                    images_to_scan, rtVars, histVars, lastResolve >>

Next ==
    \/ RegistryMove
    \/ StartSweep
    \/ NextRepo
    \/ ReposDone
    \/ TagsDone
    \/ Resolve
    \/ DecideStep
    \/ PlanReady
    \/ PlanEmpty
    \/ RtBegin
    \/ RtPull
    \/ RtCreate
    \/ RtExport
    \/ RtScan
    \/ RtCleanup
    \/ UpdateDb
    \/ Notify

Spec == Init /\ [][Next]_vars

\* ============================================================ properties
Kinds(ks) == {i \in DOMAIN log : log[i].kind \in ks}
EventsOf(ks, p) == {i \in Kinds(ks) : log[i].pair = p}
ScanPcs == {"scan", "rt_pull", "rt_create", "rt_export", "rt_scan",
            "rt_cleanup", "update", "notify"}
\* Detecting is over: every enumerated pair was resolved and decided
PostDetect == pc \in ScanPcs \cup {"plan", "done"}
PlanPairs == {<<images_to_scan[i][1], images_to_scan[i][2]>> : i \in DOMAIN images_to_scan}

\* C1: idempotence of the sweep.  When the previous run of scan_images ended
\* at Done and this run resolved every pair to what the previous run
\* resolved it to (the same digest, None, or not reached), this run's
\* images_to_scan is empty: after its Detecting phase it is at the empty
\* plan or at Done, its events are change decisions only (no summary, scan,
\* store write or per-image message) and the store is as it was.
C1_SecondRunEmpty ==
    (PostDetect /\ prevDone /\ view = prevView) =>
        /\ images_to_scan = << >>
        /\ pc \in {"plan", "done"}
        /\ Kinds({"summary", "scan_start", "scan_end", "upsert", "notify"}) = {}
        /\ store = store0

\* the second run is over, all three pairs resolved as in the first run,
\* which had scanned them and ended at Done
C1_Witness ==
    /\ pc = "done" /\ sweepNo = 2 /\ prevDone
    /\ view = prevView
    /\ \A p \in AllPairs : view[p] \in Digests /\ store[p] /= Absent
    /\ Cardinality(Kinds({"detect"})) = 3

\* C2: change detection.  Every change decision of the sweep enqueued the
\* pair if and only if the store had no row for it or the row's digest
\* differed from the resolved digest, whatever the row's timestamp and
\* count; the plan is exactly the pairs decided Scan, in order, each with
\* the digest resolved for it; the store is not written while detecting.
DetectSeq == SelectSeq(log, LAMBDA e : e.kind = "detect" /\ e.count = 1)
C2_Decision ==
    /\ \A i \in Kinds({"detect"}) :
          (log[i].count = 1) <=>
             (store0[log[i].pair] = Absent \/ store0[log[i].pair].digest /= log[i].digest)
    /\ Len(images_to_scan) = Len(DetectSeq)
    /\ \A k \in DOMAIN images_to_scan :
          images_to_scan[k] =
             <<DetectSeq[k].pair[1], DetectSeq[k].pair[2], DetectSeq[k].digest>>
    /\ pc \in {"repo", "tag", "decide", "plan"} => store = store0

\* a pair whose row has one finding and the digest just resolved is skipped,
\* and a pair whose row has another digest is enqueued
C2_Witness ==
    /\ pc = "plan"
    /\ \E i \in Kinds({"detect"}) :
          /\ log[i].count = 0
          /\ store0[log[i].pair].count = 1
    /\ \E i \in Kinds({"detect"}) :
          /\ log[i].count = 1
          /\ store0[log[i].pair] /= Absent

\* C3: cleanup guarantee.  When run_trufflehog has returned or raised and
\* neither docker rm nor rmtree failed, the scratch directory made for the
\* scan and the container named for it do not exist, whichever of pull,
\* create, export or the scanner failed (or none).
RtEnded == pc = "update" \/ (pc = "aborted" /\ abortCause = "run_trufflehog")
C3_Cleanup ==
    (RtEnded /\ cleanupFailed = None) =>
        /\ temp_dir \notin tempDirs
        /\ container_name \notin containers

\* the scanner could not be started after the container was created and
\* exported: run_trufflehog raised, and both are gone
C3_Witness ==
    /\ pc = "aborted" /\ abortCause = "run_trufflehog"
    /\ stepFailed = "scanner" /\ exc = "OSError"
    /\ cleanupFailed = None
    /\ temp_dir \notin tempDirs
    /\ container_name \notin containers

\* C4 (as claimed): whenever pull, create, export or a scanner run failed
\* inside run_trufflehog, run_trufflehog returned normally with the failure
\* text as its report and a finding count of 0.
\* Stated for the failures a step reports by its exit status, which leave
\* no exception in flight.
C4_FailureCaptured ==
    (RtEnded /\ stepFailed /= None /\ exc = None) =>
        /\ pc = "update"
        /\ scan_results = ErrorReport
        /\ vulnerabilities_count = 0

\* C5 (as claimed): the count of every row is the count of a scan of the
\* content its digest names, also when the tag moves between the digest
\* resolution and the pull.  Stated for runs in which no call fails, so that
\* only the registry acts.
C5_CountOfStoredDigest ==
    faults = 0 =>
        \A p \in AllPairs :
            store[p] /= Absent =>
                /\ scanned[p] = store[p].digest
                /\ store[p].count = Findings(store[p].digest)

\* C6 (as claimed): a row exists for a pair if and only if the pair has
\* been resolved and has gone through the change decision.
C6_RowIffConsidered ==
    \A p \in AllPairs : (store[p] /= Absent) <=> (p \in considered)

\* C6 (amended): a row exists only for a pair that has been resolved and has
\* gone through the change decision; a row that is new in this sweep was
\* written by the update_db that followed the return of the pair's scan, and
\* a pair decided Scan whose scan has not returned yet has the row it had.
C6_RowOnlyAfterScan ==
    \A p \in AllPairs :
        /\ store[p] /= Absent => p \in considered
        /\ (store[p] /= Absent /\ store0[p] = Absent) =>
              \E i \in EventsOf({"scan_end"}, p), j \in EventsOf({"upsert"}, p) : i < j
        /\ (p \in PlanPairs /\ EventsOf({"scan_end"}, p) = {}) => store[p] = store0[p]

\* a pair was decided Scan on first sighting and has no row while the sweep
\* scans another pair; and a pair has the row of its first scan
C6_Witness ==
    /\ pc = "notify"
    /\ \E p \in AllPairs : p \in considered /\ p \in PlanPairs /\ store[p] = Absent
    /\ \E p \in AllPairs : store[p] /= Absent /\ store0[p] = Absent

\* C7: frame of a sweep.  The row (digest, timestamp, count) of every pair
\* decided Skip, and of every pair not enumerated or not resolved in this
\* sweep, is the row the pair had when the sweep started (or still no row);
\* a row that differs belongs to a planned pair whose scan returned.
Skipped(p) == \E i \in EventsOf({"detect"}, p) : log[i].count = 0
C7_Frame ==
    \A p \in AllPairs :
        /\ (Skipped(p) \/ view[p] \in {Unseen, None}) => store[p] = store0[p]
        /\ store[p] /= store0[p] =>
              /\ p \in PlanPairs
              /\ EventsOf({"scan_end"}, p) /= {}

\* the sweep is over: one pair was skipped and keeps its row, another was
\* scanned and its row replaced, a third was not resolved and keeps its row
C7_Witness ==
    /\ pc = "done"
    /\ \E p \in AllPairs : Skipped(p) /\ store[p] /= Absent /\ store[p] = store0[p]
    /\ \E p \in AllPairs : store0[p] /= Absent /\ store[p] /= store0[p]
    /\ \E p \in AllPairs : view[p] = None /\ store[p] /= Absent

\* C8: the summary notification.  A sweep sends at most one summary; a sweep
\* whose scanning has begun, or that ended with a plan that is not empty,
\* has sent exactly one; the summary states the number of tasks of the plan
\* and comes after every change decision of the sweep and before every event
\* of every scan; a sweep with an empty plan sends none.
ScanKinds == {"scan_start", "scan_end", "upsert", "notify"}
C8_Summary ==
    LET S == Kinds({"summary"}) IN
    /\ Cardinality(S) <= 1
    /\ (Kinds(ScanKinds) /= {} \/ pc \in ScanPcs
          \/ (pc = "done" /\ images_to_scan /= << >>)) => Cardinality(S) = 1
    /\ images_to_scan = << >> => S = {}
    /\ \A i \in S :
          /\ log[i].count = Len(images_to_scan)
          /\ \A j \in Kinds({"detect"}) : j < i
          /\ \A j \in Kinds(ScanKinds) : i < j
          /\ PostDetect \/ pc = "aborted"

\* a sweep with a plan of three tasks over two repositories is over
C8_Witness ==
    /\ pc = "done"
    /\ Len(images_to_scan) = 3
    /\ Cardinality(Kinds({"summary"})) = 1
    /\ Cardinality(Kinds({"scan_start"})) = 3

\* C9: scanning is sequential.  After the summary the events of the sweep
\* are, task after task in the order of the plan, the start of the task's
\* scan, its return with a count, the upsert of the task's pair with the
\* task's digest and that count, and one message for the pair with that
\* count; no event of a task comes before the message of the task before
\* it, so that no two scans are in flight; a sweep that reached Done has all
\* four events of every task.
Order == <<"scan_start", "scan_end", "upsert", "notify">>
C9_Sequential ==
    LET S == Kinds({"summary"})
        first == IF S = {} THEN Len(log) + 1 ELSE (CHOOSE i \in S : TRUE) + 1
        n == Len(log) - first + 1
    IN
    /\ \A i \in Kinds(ScanKinds) : i >= first
    /\ \A o \in 0..(n - 1) :
          LET e == log[first + o]
              k == (o \div 4) + 1
          IN /\ k <= Len(images_to_scan)
             /\ e.kind = Order[(o % 4) + 1]
             /\ e.pair = <<images_to_scan[k][1], images_to_scan[k][2]>>
             /\ e.digest = images_to_scan[k][3]
             /\ (o % 4) >= 2 => e.count = log[first + o - 1].count
    /\ Cardinality(Kinds({"scan_start"})) - Cardinality(Kinds({"scan_end"})) \in {0, 1}
    /\ (pc \in ScanPcs \ {"scan"}) => n = 4 * (si - 1) + (CASE pc = "update" -> 2
                                                          [] pc = "notify" -> 3
                                                          [] OTHER -> 1)
    /\ (pc = "done" /\ images_to_scan /= << >>) => n = 4 * Len(images_to_scan)

\* the second of three tasks has been scanned and written, with one finding,
\* and its message is about to be sent
C9_Witness ==
    /\ pc = "notify" /\ si = 2
    /\ Len(images_to_scan) = 3
    /\ vulnerabilities_count = 1
    /\ Cardinality(Kinds({"notify"})) = 1
    /\ Cardinality(Kinds({"upsert"})) = 2

\* C10 (as claimed): a failure of the token exchange or of the manifest
\* request of get_image_digest gives None: the pair is not in the plan, its
\* row is not written, and the sweep goes on with the next tag or
\* repository; the failure does not end scan_images.
ResolveFailures == {"token_status", "no_token", "manifest_status", "no_header",
                    "token_exc", "manifest_exc"}
C10_ResolveFailureIsPerPair ==
    /\ \A p \in AllPairs :
          view[p] = None => (p \notin PlanPairs /\ store[p] = store0[p])
    /\ (lastResolve \in ResolveFailures /\ pc = "aborted") =>
          abortCause /= "get_image_digest"

\* the part of C10 that holds: a status other than 200, a reply without a
\* token and a reply without the digest header give None, the pair is left
\* out and the loop goes on
C10_StatusFailures ==
    \A p \in AllPairs :
        view[p] = None =>
            /\ p \notin PlanPairs
            /\ store[p] = store0[p]
            /\ EventsOf({"detect", "scan_start", "upsert", "notify"}, p) = {}

\* C17: the empty plan is terminal and free of side effects.  When the
\* Detecting phase of a run ended with images_to_scan empty, the run is at the
\* if of line 209 or has ended at Done: it sent no summary message, called
\* run_trufflehog for no pair and wrote nothing to the store.  A run in which
\* get_all_repositories returned no repository is such a run, with no event
\* at all.
C17_EmptyPlanIsTerminal ==
    /\ (PostDetect /\ images_to_scan = << >>) =>
          /\ pc \in {"plan", "done"}
          /\ Kinds({"summary"}) = {}
          /\ Kinds({"scan_start", "scan_end"}) = {}
          /\ Kinds({"upsert", "notify"}) = {}
          /\ store = store0
    /\ (sweepNo > 0 /\ repos = << >>) =>
          /\ pc \in {"repo", "plan", "done", "aborted"}
          /\ images_to_scan = << >>
          /\ log = << >>
          /\ store = store0

\* the first run ended at Done after the first page of repositories was
\* answered with a status other than 200: no repository, no pair, no task
C17_Witness ==
    /\ pc = "done" /\ sweepNo = 1
    /\ repos = << >>
    /\ images_to_scan = << >>
    /\ faults = 1
    /\ \A p \in AllPairs : view[p] = Unseen

\* C19: a failed scan is persisted like a clean one.  When run_trufflehog
\* returned the error report of its except clause (count 0), scan_images
\* wrote the pair's row with the digest resolved for the task and count 0
\* before the per-image message, which is the message of a scan without
\* findings; and a run that resolves a pair to the digest of its row decides
\* Skip, does not scan it and leaves its row as it is, also when the row was
\* written after a scan that failed.
C19_FailedScanPersisted ==
    /\ (pc = "notify" /\ scan_results = ErrorReport) =>
          /\ vulnerabilities_count = 0
          /\ store[TaskPair].digest = Task[3]
          /\ store[TaskPair].count = 0
          /\ log[Len(log)] = Event("upsert", TaskPair, Task[3], 0)
    /\ \A i \in Kinds({"notify"}) :
          (\E j \in Kinds({"scan_end"}) : j < i /\ log[j].pair = log[i].pair)
             /\ \E j \in Kinds({"upsert"}) : j < i /\ log[j].pair = log[i].pair
    /\ \A i \in Kinds({"detect"}) :
          LET p == log[i].pair IN
          (store0[p] /= Absent /\ store0[p].digest = log[i].digest) =>
              /\ log[i].count = 0
              /\ EventsOf(ScanKinds, p) = {}
              /\ store[p] = store0[p]

\* the second run decided Skip for app:v2, whose content has a finding and
\* whose row the first run wrote with count 0 after a failed scan
C19_Witness ==
    /\ sweepNo = 2 /\ pc = "done"
    /\ scanned[<<"app", "v2">>] = NoScan
    /\ store[<<"app", "v2">>] /= Absent
    /\ store[<<"app", "v2">>].digest = "sha_b"
    /\ store[<<"app", "v2">>].count = 0
    /\ reg[<<"app", "v2">>] = "sha_b"
    /\ \E i \in EventsOf({"detect"}, <<"app", "v2">>) :
          log[i].count = 0 /\ log[i].digest = "sha_b"

\* C20: a message that slack refuses never affects scanning or persistence.
\* When the last message of the run, the summary or a per-image message, was
\* answered with a SlackApiError, the run goes on: after the summary with the
\* first task, after a per-image message with the next task or to Done, and
\* the row of the task the message was about was written before the message
\* was tried.  A run at Done has scanned every task of its plan once and its
\* store has, for every task, the row with the task's digest.
C20_SendFailureIsHarmless ==
    /\ (lastSend = "api_error" /\ log /= << >> /\ log[Len(log)].kind = "summary") =>
          /\ pc = "scan" /\ si = 1
          /\ store = store0
    /\ (lastSend = "api_error" /\ log /= << >> /\ log[Len(log)].kind = "notify") =>
          /\ pc \in {"scan", "done"}
          /\ pc = "done" <=> Cardinality(Kinds({"notify"})) = Len(images_to_scan)
          /\ Len(log) > 1
          /\ log[Len(log) - 1] = [log[Len(log)] EXCEPT !.kind = "upsert"]
          /\ store[log[Len(log)].pair].digest = log[Len(log)].digest
    /\ (pc = "done" /\ images_to_scan /= << >>) =>
          \A k \in DOMAIN images_to_scan :
             LET p == <<images_to_scan[k][1], images_to_scan[k][2]>> IN
             /\ Cardinality(EventsOf({"scan_start"}, p)) = 1
             /\ Cardinality(EventsOf({"upsert"}, p)) = 1
             /\ store[p] /= Absent
             /\ store[p].digest = images_to_scan[k][3]

\* the first run scanned and stored its three tasks and ended at Done, and
\* slack refused its last message
C20_Witness ==
    /\ pc = "done" /\ sweepNo = 1
    /\ lastSend = "api_error"
    /\ Len(images_to_scan) = 3
    /\ log[Len(log)].kind = "notify"
    /\ \A p \in AllPairs : store[p] /= Absent

\* C14 (as claimed): a failure of docker rm or of shutil.rmtree at the end of
\* run_trufflehog does not abort the sweep: run_trufflehog still returns its
\* result and scan_images goes on to update_db for that task.
C14_CleanupFailureContinues ==
    (RtEnded /\ cleanupFailed /= None) => pc = "update"

\* C15 (as claimed): a failure of the write in update_db skips that task and
\* does not end scan_images: the sweep is never ended by update_db.
C15_WriteFailureSkipsItem ==
    pc = "aborted" => abortCause /= "update_db"

\* ======================================= get_all_repositories, get_all_tags
\* One call, request by request, against a source of K pages chained by next
\* links.  The sweep above uses FetchPages for the same loop.
MaxPages == 3         \* pages of the source
MaxPageLen == 1       \* items of a page
PageItems == {"a", "b"}

SeqsUpTo(S, n) == UNION {[1..k -> S] : k \in 0..n}
PagesOf == SeqsUpTo(PageItems, MaxPageLen)
Sources == UNION {[1..k -> PagesOf] : k \in 1..MaxPages}

\* data.get('next'): the link of the page after, None on the last page
NextLink(pages, i) == IF i < Len(pages) THEN i + 1 ELSE 0

\* variant: repos = [...] in place of repos.extend([...])
ExtendMutAssign(items, page) == page

\* repos.extend([repo['name'] for repo in data.get('results', [])])
Extend(items, page) == items \o page

\* variant: a failing page returns nothing of what was collected
OnStatusMutDiscard(items) == << >>

\* if response.status_code != 200: print(...); break, then return repos
OnStatus(items) == items

PgInit ==
    /\ pgWho \in {"get_all_repositories", "get_all_tags"}
    /\ pgPages \in Sources
    /\ pgFailAt \in 1..(Len(pgPages) + 1)
    /\ pgFailKind \in IF pgFailAt <= Len(pgPages) THEN {"status", "raises"} ELSE {None}
    /\ pgUrl = 1
    /\ pgItems = << >>
    /\ pgRequests = 0
    /\ pgPc = "loop"

\* while url: response = requests.get(url, params=params) ...
PgRequest ==
    /\ pgPc = "loop"
    /\ pgUrl /= 0
    /\ pgRequests' = pgRequests + 1
    /\ \/ /\ pgUrl /= pgFailAt
          /\ pgItems' = Extend(pgItems, pgPages[pgUrl])
          /\ pgUrl' = NextLink(pgPages, pgUrl)
          /\ pgPc' = "loop"
       \/ /\ pgUrl = pgFailAt /\ pgFailKind = "status"
          /\ pgItems' = OnStatus(pgItems)
          /\ pgPc' = "returned"
          /\ UNCHANGED pgUrl
       \/ /\ pgUrl = pgFailAt /\ pgFailKind = "raises"
          /\ pgPc' = "raised"
          /\ UNCHANGED << pgUrl, pgItems >>
    /\ UNCHANGED << sweepVars, dbVars, ccVars, cnVars, pgWho, pgPages, pgFailAt, pgFailKind >>

\* url is None: the loop ends, return repos
PgReturn ==
    /\ pgPc = "loop"
    /\ pgUrl = 0
    /\ pgPc' = "returned"
    /\ UNCHANGED << sweepVars, dbVars, ccVars, cnVars, pgWho, pgPages, pgFailAt, pgFailKind, pgUrl,
                    pgItems, pgRequests >>

PgNext == PgRequest \/ PgReturn

InitPages == SweepInit /\ DbIdle /\ CcIdle /\ CnIdle /\ PgInit
SpecPages == InitPages /\ [][PgNext]_vars

RECURSIVE Flatten(_)
Flatten(pages) ==
    IF pages = << >> THEN << >> ELSE Head(pages) \o Flatten(Tail(pages))

\* C11: pagination.  Against a source of K pages of which none fails, the
\* call returns the items of all K pages, concatenated in page order, after
\* exactly K requests; it never makes more than K requests.
C11_AllPages ==
    /\ pgRequests <= Len(pgPages)
    /\ (pgPc = "returned" /\ pgFailAt > Len(pgPages)) =>
          /\ pgItems = Flatten(pgPages)
          /\ pgRequests = Len(pgPages)

\* a call over three pages, the second of them empty, has returned
C11_Witness ==
    /\ pgPc = "returned"
    /\ Len(pgPages) = 3 /\ pgFailAt = 4
    /\ pgPages[1] /= << >> /\ pgPages[2] = << >> /\ pgPages[3] /= << >>
    /\ pgPages[1] /= pgPages[3]
    /\ pgRequests = 3

\* C12: partial results.  When page j answers with a status other than 200
\* the call makes no request after the j-th and returns to its caller, with
\* exactly the items of pages 1..j-1, which is what the sweep's FetchPages
\* gives scan_images to go on with.
C12_PartialResults ==
    (pgFailAt <= Len(pgPages) /\ pgFailKind = "status") =>
        /\ pgPc /= "raised"
        /\ pgRequests <= pgFailAt
        /\ pgPc = "returned" =>
              /\ pgRequests = pgFailAt
              /\ pgItems = Flatten(SubSeq(pgPages, 1, pgFailAt - 1))
              /\ pgItems = FetchPages(pgPages, 1, << >>, pgFailAt)

\* the third of three pages failed after two pages with items
C12_Witness ==
    /\ pgPc = "returned"
    /\ pgFailKind = "status" /\ pgFailAt = 3 /\ Len(pgPages) = 3
    /\ Len(pgItems) = 2
    /\ pgRequests = 3

\* ========================================================= the images table
\* initialize_db and update_db on the table as sqlite keeps it: a list of
\* rows, with PRIMARY KEY (image_name, tag).  The sweep above keeps the same
\* table as a function from keys to rows (store, Upsert).
MaxCalls == 3         \* calls of update_db in one behaviour

Row(key, d, ts, c) ==
    [image_name |-> key[1], tag |-> key[2], digest |-> d, ts |-> ts, count |-> c]
KeyOf(row) == <<row.image_name, row.tag>>

\* variant: the table has no primary key, INSERT OR REPLACE only inserts
InsertOrReplaceMutNoKey(rows, row) == Append(rows, row)

\* INSERT OR REPLACE: the rows in conflict on the primary key are deleted,
\* then the row is inserted
InsertOrReplace(rows, row) ==
    Append(SelectSeq(rows, LAMBDA r : KeyOf(r) /= KeyOf(row)), row)

\* the table as the sweep keeps it
AsStore(rows) ==
    [p \in AllPairs |->
        IF \E i \in DOMAIN rows : KeyOf(rows[i]) = p
        THEN LET r == rows[CHOOSE i \in DOMAIN rows : KeyOf(rows[i]) = p]
             IN [digest |-> r.digest, ts |-> r.ts, count |-> r.count]
        ELSE Absent]

\* initialize_db on a new images.db: CREATE TABLE IF NOT EXISTS images
DbInit ==
    /\ dbRows = << >>
    /\ dbClock = 1
    /\ dbCalls = 0
    /\ dbLast = NoCall
    /\ dbBefore = << >>
    /\ dbRepeat = 0

\* update_db(image_name, tag, digest, vulnerabilities_count), at a time that
\* is the time of the call before or later
DbUpdate ==
    /\ dbCalls < MaxCalls
    /\ \E key \in AllPairs, d \in Digests, c \in {0, 1}, now \in {dbClock, dbClock + 1} :
          /\ dbRows' = InsertOrReplace(dbRows, Row(key, d, now, c))
          /\ dbClock' = now
          /\ dbLast' = [key |-> key, digest |-> d, count |-> c, ts |-> now]
          /\ dbRepeat' = IF dbLast.key = key /\ dbLast.digest = d /\ dbLast.count = c
                            THEN dbRepeat + 1 ELSE 1
    /\ dbBefore' = dbRows
    /\ dbCalls' = dbCalls + 1
    /\ UNCHANGED << sweepVars, pgVars, ccVars, cnVars >>

InitStore == SweepInit /\ PgIdle /\ CcIdle /\ CnIdle /\ DbInit
SpecStore == InitStore /\ [][DbUpdate]_vars

RowsOfOthers(rows, key) == {rows[i] : i \in {j \in DOMAIN rows : KeyOf(rows[j]) /= key}}

\* C13: upsert is keyed and idempotent.  After any sequence of update_db
\* calls no two rows of the table have the same (image_name, tag); after a
\* call, the first or a repetition, the table has exactly one row for the
\* call's key, with the call's digest and count and the time of the call, and
\* the rows of the other keys are the rows they were before the call; the
\* table is then the store Upsert gives.
C13_UpsertKeyed ==
    /\ \A i, j \in DOMAIN dbRows : KeyOf(dbRows[i]) = KeyOf(dbRows[j]) => i = j
    /\ dbCalls > 0 =>
          /\ Cardinality({i \in DOMAIN dbRows : KeyOf(dbRows[i]) = dbLast.key}) = 1
          /\ \E i \in DOMAIN dbRows :
                dbRows[i] = Row(dbLast.key, dbLast.digest, dbLast.ts, dbLast.count)
          /\ RowsOfOthers(dbRows, dbLast.key) = RowsOfOthers(dbBefore, dbLast.key)
          /\ AsStore(dbRows) =
                Upsert(AsStore(dbBefore), dbLast.key, dbLast.digest, dbLast.ts, dbLast.count)

\* the same record was upserted twice in a row, the second time later, next
\* to the row of another key
C13_Witness ==
    /\ dbRepeat = 2
    /\ Len(dbRows) = 2
    /\ Len(dbBefore) = 2
    /\ \E i \in DOMAIN dbBefore :
          KeyOf(dbBefore[i]) = dbLast.key /\ dbBefore[i].ts < dbLast.ts

\* ==================================== run_trufflehog, invocations that overlap
\* Two runs of the scanner on one host (one docker daemon, one temporary
\* directory): each invocation of run_trufflehog goes through lines 135-175,
\* the steps of the two interleave.
\* image references: two of the registry above, and two whose repository and
\* tag are written letter by letter, ns/a_b:c and ns/a:b_c
ConcRefs == {ImageTag(Namespace, "app", "v1"), ImageTag(Namespace, "lib", "v1"),
             <<Namespace, "/", "a", "_", "b", ":", "c">>,
             <<Namespace, "/", "a", ":", "b", "_", "c">>}

InFlight(p) == ccInv[p].pc \in {"pull", "create", "export", "cleanup"}
Named(name) == {c \in ccContainers : c.name = name}

CcInit ==
    /\ \E refs \in [Procs -> ConcRefs] :
          ccInv = [p \in Procs |-> [NoInv EXCEPT !.image_tag = refs[p], !.pc = "begin"]]
    /\ ccDirs = {}
    /\ ccContainers = {}
    /\ ccClash = {}

\* temp_dir = tempfile.mkdtemp(); container_name = f"temp_container_..."
CcBegin(p) ==
    /\ ccInv[p].pc = "begin"
    /\ ccInv' = [ccInv EXCEPT ![p].temp_dir = FreshDir(ccDirs),
                              ![p].container_name = ContainerName(ccInv[p].image_tag),
                              ![p].pc = "pull"]
    /\ ccDirs' = ccDirs \cup {FreshDir(ccDirs)}
    /\ UNCHANGED << ccContainers, ccClash >>
    /\ UNCHANGED << sweepVars, pgVars, dbVars, cnVars >>

\* docker pull, check=True
CcPull(p) ==
    /\ ccInv[p].pc = "pull"
    /\ \E outcome \in {"ok", "nonzero"} :
          ccInv' = [ccInv EXCEPT ![p].pc = IF outcome = "ok" THEN "create" ELSE "cleanup"]
    /\ UNCHANGED << ccDirs, ccContainers, ccClash >>
    /\ UNCHANGED << sweepVars, pgVars, dbVars, cnVars >>

\* docker create --name container_name image_tag, check=True: the daemon
\* refuses a name that is in use
CcCreate(p) ==
    /\ ccInv[p].pc = "create"
    /\ LET name == ccInv[p].container_name IN
       IF Named(name) /= {}
       THEN /\ ccInv' = [ccInv EXCEPT ![p].pc = "cleanup"]
            /\ ccClash' = ccClash \cup {<<p, c.by, "refused">> : c \in Named(name)}
            /\ UNCHANGED ccContainers
       ELSE /\ ccInv' = [ccInv EXCEPT ![p].pc = "export"]
            /\ ccContainers' = ccContainers \cup {[name |-> name, by |-> p]}
            /\ UNCHANGED ccClash
    /\ UNCHANGED ccDirs
    /\ UNCHANGED << sweepVars, pgVars, dbVars, cnVars >>

\* docker export container_name | tar -x -C temp_dir, then the scanner runs:
\* no exit status is looked at; without a container of that name nothing is
\* extracted
CcExport(p) ==
    /\ ccInv[p].pc = "export"
    /\ LET name == ccInv[p].container_name IN
       ccInv' = [ccInv EXCEPT ![p].extracted = IF Named(name) /= {} THEN "image"
                                                ELSE "nothing",
                              ![p].pc = "cleanup"]
    /\ UNCHANGED << ccDirs, ccContainers, ccClash >>
    /\ UNCHANGED << sweepVars, pgVars, dbVars, cnVars >>

\* finally: docker rm container_name removes the container of that name,
\* whoever created it; shutil.rmtree(temp_dir); return
CcCleanup(p) ==
    /\ ccInv[p].pc = "cleanup"
    /\ LET name == ccInv[p].container_name IN
       /\ ccContainers' = ccContainers \ Named(name)
       /\ ccClash' = ccClash \cup
             {<<p, c.by, "removed">> : c \in {d \in Named(name) : d.by /= p}}
    /\ ccDirs' = Rmtree(ccDirs, ccInv[p].temp_dir, "ok")
    /\ ccInv' = [ccInv EXCEPT ![p].pc = "returned"]
    /\ UNCHANGED << sweepVars, pgVars, dbVars, cnVars >>

CcNext ==
    \E p \in Procs :
        CcBegin(p) \/ CcPull(p) \/ CcCreate(p) \/ CcExport(p) \/ CcCleanup(p)

InitConc == SweepInit /\ PgIdle /\ DbIdle /\ CnIdle /\ CcInit
SpecConc == InitConc /\ [][CcNext]_vars

\* C16 (as claimed): any two invocations of run_trufflehog in flight at the
\* same time, for the same image reference or for different ones, have
\* different scratch directories and different container names, and neither
\* is stopped by, nor removes, the other's container.
C16_NamesUnique ==
    /\ \A p, q \in Procs :
          (p /= q /\ InFlight(p) /\ InFlight(q)) =>
              /\ ccInv[p].temp_dir /= ccInv[q].temp_dir
              /\ ccInv[p].container_name /= ccInv[q].container_name
    /\ ccClash = {}

\* the part of C16 that holds: mkdtemp gives every invocation in flight a
\* directory of its own
C16_DirsDistinct ==
    \A p, q \in Procs :
        (p /= q /\ InFlight(p) /\ InFlight(q)) => ccInv[p].temp_dir /= ccInv[q].temp_dir

\* ================================================== the count of findings
\* Lines 152-166 on the scanner's two outputs as strings of characters.
MaxOut == 4           \* characters of the structured output

Whitespace == {" ", "\t", "\n"}
OutChars == {"x"} \cup Whitespace
Outputs == SeqsUpTo(OutChars, MaxOut)
Texts == {<< >>, <<"x">>, <<"x", "\n", "x">>}

\* str.strip(): whitespace at both ends is dropped
RECURSIVE LStrip(_)
LStrip(s) == IF s /= << >> /\ Head(s) \in Whitespace THEN LStrip(Tail(s)) ELSE s
RECURSIVE RStrip(_)
RStrip(s) ==
    IF s /= << >> /\ s[Len(s)] \in Whitespace THEN RStrip(SubSeq(s, 1, Len(s) - 1)) ELSE s
Strip(s) == RStrip(LStrip(s))

\* str.split('\n'): the pieces between the newlines; one piece, the empty
\* string, for the empty string
RECURSIVE SplitFrom(_, _)
SplitFrom(s, piece) ==
    IF s = << >> THEN << piece >>
    ELSE IF Head(s) = "\n" THEN << piece >> \o SplitFrom(Tail(s), << >>)
    ELSE SplitFrom(Tail(s), Append(piece, Head(s)))
Split(s) == SplitFrom(s, << >>)

\* for line in scan_results_json.strip().split('\n'):
\*     if line.strip(): vulnerabilities_count += 1
RECURSIVE CountTruthy(_)
CountTruthy(lines) ==
    IF lines = << >> THEN 0
    ELSE (IF Strip(Head(lines)) /= << >> THEN 1 ELSE 0) + CountTruthy(Tail(lines))

\* variant: the lines of the report are counted
CountedOutputMutText(text, json) == text

\* the output whose lines are counted: scan_results_json
CountedOutput(text, json) == json

CnInit ==
    /\ cnText \in Texts
    /\ cnJson \in Outputs
    /\ cnReport = << >>
    /\ cnCount = 0
    /\ cnPc = "run"

\* both scanner runs ended; scan_results and vulnerabilities_count are set
\* and returned
CnCount ==
    /\ cnPc = "run"
    /\ cnReport' = cnText
    /\ cnCount' = CountTruthy(Split(Strip(CountedOutput(cnText, cnJson))))
    /\ cnPc' = "returned"
    /\ UNCHANGED << sweepVars, pgVars, dbVars, ccVars, cnText, cnJson >>

InitCount == SweepInit /\ PgIdle /\ DbIdle /\ CcIdle /\ CnInit
SpecCount == InitCount /\ [][CnCount]_vars

\* the lines of an output that are not blank, each by its first character
\* that is not whitespace
NonBlankLines(out) ==
    {i \in DOMAIN out :
        /\ out[i] \notin Whitespace
        /\ \A j \in 1..(i - 1) :
              (\A k \in j..(i - 1) : out[k] /= "\n") => out[j] \in Whitespace}

\* C18: the finding count.  When both scanner runs succeeded the count
\* run_trufflehog returns is the number of lines of the structured output
\* that are not blank, for the empty output (0), for outputs with empty or
\* whitespace-only lines and with or without a newline at the end; the
\* report is returned as it was printed and has no part in the count.
C18_CountIsNonBlankLines ==
    cnPc = "returned" =>
        /\ cnCount = Cardinality(NonBlankLines(cnJson))
        /\ cnReport = cnText

\* one record, then a whitespace-only line and a newline at the end, under
\* a report of one line: the count is 1
C18_Witness ==
    /\ cnPc = "returned"
    /\ cnJson = <<"x", "\n", " ", "\n">>
    /\ cnText = <<"x">>
    /\ cnCount = 1

====
